---- MODULE Spec2Model ----
(***************************************************************************)
(* A model of backends/circuitbycirq.py (class CircuitByCirq): the        *)
(* per-term circuit builder get_expectation and the two aggregation        *)
(* strategies behind expectation_calculation.                              *)
(*                                                                         *)
(* Conventions.                                                            *)
(*  - A graph element is a sequence: <<n>> is the int n (a node),          *)
(*    <<a, b>> is the tuple (a, b) (an edge).                              *)
(*  - A subgraph is [nodes |-> list(graph.nodes), edges |-> list of        *)
(*    <<u, v>> as graph.edges enumerates them]; as in a networkx graph the *)
(*    nodes are distinct and every edge endpoint is a node.                *)
(*  - A dict is a function; a missing key is a key outside its DOMAIN.     *)
(*  - _pargs is a numpy array: arithmetic on a slice is elementwise, so an *)
(*    angle is a sequence of numbers (a one-entry sequence is the scalar). *)
(*  - cirq's simulation is a library call: it is a deterministic function  *)
(*    of the gate sequence and the observable, modelled by a checksum.     *)
(***************************************************************************)
EXTENDS Integers, Sequences, FiniteSets, TLC

\* ------------------------------------------------------------------ bounds
MaxNode == 1
MaxEdges == 2
MaxP == 2

Nodes == 0 .. MaxNode

\* ----------------------------------------------------------------- helpers
Range(s) == {s[i] : i \in 1 .. Len(s)}

IsInjective(s) == \A i, j \in 1 .. Len(s) : s[i] = s[j] => i = j

RECURSIVE SumSeq(_)
SumSeq(s) == IF s = <<>> THEN 0 ELSE s[1] + SumSeq(Tail(s))

RECURSIVE Concat(_)
Concat(ss) == IF ss = <<>> THEN <<>> ELSE ss[1] \o Concat(Tail(ss))

\* results of a Python call: a value, or an exception that propagates
Ok(v) == [ok |-> TRUE, val |-> v]
Raise(e) == [ok |-> FALSE, err |-> e]

\* ------------------------------------------------- get_expectation (39-99)
\* isinstance(original_e, int)
IsInt(e) == Len(e) = 1

\* collections.defaultdict(int): a lookup of a missing key yields int() = 0
\* and inserts the key with that value
DDGet(d, key) == IF key \in DOMAIN d THEN d[key] ELSE 0

DDTouch(d, keys) == [x \in (DOMAIN d) \cup keys |-> DDGet(d, x)]

\* lines 58-61: node_to_qubit[node_list[i]] = i, i = 0 .. len(node_list)-1
NodeToQubit(node_list) ==
    [n \in Range(node_list) |->
        (CHOOSE i \in 1 .. Len(node_list) : node_list[i] = n) - 1]

\* a gate application: its name, the local qubits it acts on, its angle
Gate(name, qubits, angle) == [name |-> name, qubits |-> qubits, angle |-> angle]

\* line 65: cirq.H(ql[i]) for i in range(len(node_list))
HadamardGates(k) == [i \in 1 .. k |-> Gate("H", <<i - 1>>, <<>>)]

\* line 67: gamma_list, beta_list = self._pargs[:p], self._pargs[p:]
GammaList(p, pargs) == SubSeq(pargs, 1, IF p < Len(pargs) THEN p ELSE Len(pargs))

BetaList(p, pargs) == SubSeq(pargs, p + 1, Len(pargs))

\* 2 * <array> * w, elementwise
Scale2(arr, w) == [j \in 1 .. Len(arr) |-> 2 * arr[j] * w]

Twice(arr) == [j \in 1 .. Len(arr) |-> 2 * arr[j]]

\* lines 69-71: one rz per subgraph node; self._nodes_weight[i] may raise
NodeRzGates(node_list, n2q, gamma_list, nodes_weight) ==
    [i \in 1 .. Len(node_list) |->
        Gate("rz", <<DDGet(n2q, node_list[i])>>,
             Scale2(gamma_list, nodes_weight[node_list[i]]))]

\* lines 73-80: CX, rz, CX per edge whose endpoints map to different qubits
EdgeGates(edge, n2q, gamma_list, edges_weight) ==
    LET u == DDGet(n2q, edge[1])
        v == DDGet(n2q, edge[2])
    IN  IF u = v
        THEN <<>>
        ELSE << Gate("CX", <<u, v>>, <<>>),
                Gate("rz", <<v>>, Scale2(gamma_list, edges_weight[<<edge[1], edge[2]>>])),
                Gate("CX", <<u, v>>, <<>>) >>

\* lines 82-84: one rx per subgraph node
MixerGates(node_list, n2q, beta_list) ==
    [i \in 1 .. Len(node_list) |->
        Gate("rx", <<DDGet(n2q, node_list[i])>>, Twice(beta_list))]

\* the first key lookup of one pass of the loop body (68-84) that fails
LayerMissingKey(graph, n2q, nodes_weight, edges_weight) ==
    (\E i \in 1 .. Len(graph.nodes) : graph.nodes[i] \notin DOMAIN nodes_weight)
    \/ (\E j \in 1 .. Len(graph.edges) :
           /\ DDGet(n2q, graph.edges[j][1]) # DDGet(n2q, graph.edges[j][2])
           /\ <<graph.edges[j][1], graph.edges[j][2]>> \notin DOMAIN edges_weight)

\* lines 69-84: the gates one pass of the loop body appends (the body does
\* not read the loop variable k)
LayerGates(graph, n2q, gamma_list, beta_list, nodes_weight, edges_weight) ==
    NodeRzGates(graph.nodes, n2q, gamma_list, nodes_weight)
    \o Concat([j \in 1 .. Len(graph.edges) |->
                 EdgeGates(graph.edges[j], n2q, gamma_list, edges_weight)])
    \o MixerGates(graph.nodes, n2q, beta_list)

\* the keys one pass of the loop body looks up in node_to_qubit
LayerKeys(graph) ==
    Range(graph.nodes) \cup UNION {{graph.edges[j][1], graph.edges[j][2]} :
                                      j \in 1 .. Len(graph.edges)}

\* lines 89-94: the weight lookup; may raise KeyError
WeightMissing(original_e, nodes_weight, edges_weight) ==
    IF IsInt(original_e)
    THEN original_e[1] \notin DOMAIN nodes_weight
    ELSE original_e \notin DOMAIN edges_weight

Weight(original_e, nodes_weight, edges_weight) ==
    IF IsInt(original_e) THEN nodes_weight[original_e[1]] ELSE edges_weight[original_e]

\* lines 91, 94: the local qubits the Z factors of op act on
ObservableQubits(original_e, n2q) ==
    IF IsInt(original_e)
    THEN <<DDGet(n2q, original_e[1])>>
    ELSE <<DDGet(n2q, original_e[1]), DDGet(n2q, original_e[2])>>

ObservableKeys(original_e) == Range(original_e)

\* lines 96-97: final_state_vector and expectation_from_state_vector, a
\* deterministic function of the circuit and the observable
GateCode(g) ==
    (CASE g.name = "H" -> 1 [] g.name = "rz" -> 2 [] g.name = "CX" -> 3 [] OTHER -> 4)
    + SumSeq(g.qubits) + SumSeq(g.angle)

Checksum(circ) == SumSeq([i \in 1 .. Len(circ) |-> i * GateCode(circ[i])])

ExpRes(circ, op) == ((Checksum(circ) + 3 * SumSeq(op) + Len(op)) % 5) - 2

\* lines 57-99 as one function of the term and the engine's fields: the
\* value returned, or the exception that propagates
GetExpectation(element_graph, nodes_weight, edges_weight, p, pargs) ==
    LET original_e == element_graph[1]
        graph == element_graph[2]
        n2q == NodeToQubit(graph.nodes)
        gamma_list == GammaList(p, pargs)
        beta_list == BetaList(p, pargs)
        layer == LayerGates(graph, n2q, gamma_list, beta_list, nodes_weight, edges_weight)
        circ == HadamardGates(Len(graph.nodes)) \o Concat([k \in 1 .. p |-> layer])
        op == ObservableQubits(original_e, n2q)
    IN  IF p >= 1 /\ LayerMissingKey(graph, n2q, nodes_weight, edges_weight)
        THEN Raise("KeyError")
        ELSE IF WeightMissing(original_e, nodes_weight, edges_weight)
        THEN Raise("KeyError")
        ELSE Ok(Weight(original_e, nodes_weight, edges_weight) * ExpRes(circ, op))

\* ------------------------------------------------------------ input domains
\* list(graph.nodes): distinct node identifiers in enumeration order
NodeLists ==
    {s \in UNION {[1 .. k -> Nodes] : k \in 1 .. MaxNode + 1} : IsInjective(s)}

\* graph.edges of an undirected networkx graph over node_list: every edge
\* once, its first endpoint enumerated no later than its second
EdgePairs(node_list) ==
    {<<node_list[ij[1]], node_list[ij[2]]>> :
        ij \in {x \in (1 .. Len(node_list)) \X (1 .. Len(node_list)) : x[1] <= x[2]}}

EdgeLists(node_list) ==
    {s \in UNION {[1 .. k -> EdgePairs(node_list)] : k \in 0 .. MaxEdges} : IsInjective(s)}

Graphs == UNION {{[nodes |-> nl, edges |-> el] : el \in EdgeLists(nl)} : nl \in NodeLists}

Flip(pair) == <<pair[2], pair[1]>>

Reverse(s) == [i \in 1 .. Len(s) |-> s[Len(s) + 1 - i]]

\* the same graph enumerated from the other end
Mirror(graph) ==
    [nodes |-> Reverse(graph.nodes),
     edges |-> Reverse([j \in 1 .. Len(graph.edges) |-> Flip(graph.edges[j])])]

\* the elements a subgraph is built around: one of its nodes, or one of its
\* edges written in either order
Elements(graph) ==
    {<<n>> : n \in Range(graph.nodes)}
    \cup Range(graph.edges) \cup {Flip(e) : e \in Range(graph.edges)}

Items == UNION {{<<e, g>> : e \in Elements(g)} : g \in Graphs}

NodeW(n) == n + 1

EdgeW(pair) == pair[1] + pair[2] + 1

SortedPairs == {pr \in Nodes \X Nodes : pr[1] <= pr[2]}

ReversedPairs == {pr \in Nodes \X Nodes : pr[1] >= pr[2]}

\* nodes_weight: every node, or every node but the last
NodeWeightDicts == {[n \in D |-> NodeW(n)] : D \in {Nodes, Nodes \ {MaxNode}}}

\* edges_weight: keyed (u, v) with u <= v, keyed the other way round, keyed
\* both ways, or empty
EdgeWeightDicts ==
    {[pr \in D |-> EdgeW(pr)] : D \in {SortedPairs, ReversedPairs, Nodes \X Nodes, {}}}

\* _pargs for depth p: 2p pairwise different angles
ParamVectors(p) == {[i \in 1 .. 2 * p |-> i], [i \in 1 .. 2 * p |-> 2 * p + 1 - i]}

\* ------------------------------------------------------------------- state
VARIABLES
    t_item,          \* get_expectation: the argument element_graph
    t_nw, t_ew,      \* self._nodes_weight, self._edges_weight during the call
    t_p, t_pargs,    \* self._p, self._pargs during the call
    t_pc,            \* position in get_expectation
    node_to_qubit,   \* the local defaultdict node_to_qubit
    circ,            \* the local circ: the gates appended so far
    t_k,             \* passes of the loop at line 68 completed
    t_weight, t_op,  \* the locals weight and op (the qubits of its Z factors)
    t_res            \* the value returned, or the exception raised

tvars == <<t_item, t_nw, t_ew, t_p, t_pargs, t_pc, node_to_qubit, circ, t_k,
           t_weight, t_op, t_res>>

NoValue == "None"


\* ------------------------------------------------------------ engine model
\* multiprocessing.cpu_count() / os.cpu_count() of the host
CpuCount == 2
MaxItems == 2
MaxCalls == 2

Engines == {"A", "B"}

\* the five thread-count variables of lines 112-116 and 128-132
EnvNames ==
    {"OMP_NUM_THREADS", "OPENBLAS_NUM_THREADS", "MKL_NUM_THREADS",
     "VECLIB_MAXIMUM_THREADS", "NUMEXPR_NUM_THREADS"}

\* Python's None, and a value that is not None
None == <<>>
Some(x) == <<x>>
The(o) == o[1]

\* str(n)
Str(n) == <<"str", n>>

\* the terms of the problem graph 0 - 1, in the order the caller inserts
\* them: node 0 on its own, node 1 with its neighbourhood (enumerated from
\* node 1), and the edge (0, 1)
ProblemItems ==
    << <<<<0>>, [nodes |-> <<0>>, edges |-> <<>>]>>,
       <<<<1>>, [nodes |-> <<1, 0>>, edges |-> << <<1, 0>> >>]>>,
       <<<<0, 1>>, [nodes |-> <<0, 1>>, edges |-> << <<0, 1>> >>]>> >>

IsIncreasing(s) == \A i, j \in 1 .. Len(s) : i < j => s[i] < s[j]

\* list(element_to_graph.items()): up to MaxItems of these items, in
\* insertion order
Mappings ==
    {[i \in 1 .. Len(s) |-> ProblemItems[s[i]]] :
        s \in {x \in UNION {[1 .. k -> 1 .. Len(ProblemItems)] : k \in 0 .. MaxItems} :
                 IsIncreasing(x)}}

\* what the caller attaches: a depth, its parameter vector and a mapping
CallerInputs ==
    {[p |-> pp, pargs |-> [i \in 1 .. 2 * pp |-> i], element_to_graph |-> m] :
        pp \in 1 .. MaxP, m \in Mappings}

\* the weights the engines are constructed with: every edge has a weight
\* under both orders of its endpoints; every node has a weight, or node 1
\* has none
EngineNodeWeightDicts == {[n \in D |-> NodeW(n)] : D \in {Nodes, Nodes \ {1}}}

EngineEdgeWeights == [pr \in Nodes \X Nodes |-> EdgeW(pr)]

\* the is_parallel arguments of the two engines: the engines are
\* interchangeable, so one order of each pair is generated, and two engines
\* constructed alike only for is_parallel=True (None and False already give
\* two serial engines)
ArgRank(arg) == CASE arg = "None" -> 0 [] arg = "False" -> 1 [] OTHER -> 2

EngineArgs ==
    {f \in [Engines -> {"None", "False", "True"}] :
        /\ ArgRank(f["A"]) <= ArgRank(f["B"])
        /\ f["A"] = f["B"] => f["A"] = "True"}

VARIABLES
    arg_is_parallel,        \* the is_parallel argument each engine was constructed with
    self_is_parallel,       \* self._is_parallel
    self_nodes_weight,      \* self._nodes_weight
    self_edges_weight,      \* self._edges_weight
    self_p,                 \* self._p
    self_pargs,             \* self._pargs
    self_element_to_graph,  \* self._element_to_graph
    self_expectation_path,  \* self._expectation_path
    environ,                \* os.environ of the calling process, the five names
    caller,                 \* the p, pargs and mapping the caller attaches
    frame,                  \* the running call of expectation_calculation
    pools,                  \* every Pool created so far
    outcomes                \* how each call ended, in order

evars == <<arg_is_parallel, self_is_parallel, self_nodes_weight, self_edges_weight,
           self_p, self_pargs, self_element_to_graph, self_expectation_path,
           environ, caller, frame, pools, outcomes>>

inputs == <<self_nodes_weight, self_edges_weight, self_p, self_pargs,
            self_element_to_graph>>

vars == <<tvars, evars>>

\* line 24: self._is_parallel = False if is_parallel is None else is_parallel
IsParallelField(arg) == IF arg = "None" THEN FALSE ELSE arg = "True"

IdleFrame ==
    [pc |-> "idle", eng |-> "-", strategy |-> "-", res |-> 0, idx |-> 0,
     pool |-> 0, circ_res |-> <<>>, evals |-> <<>>, begin |-> <<>>,
     begin_path |-> <<>>]

\* the fields of engine e a computation reads
Inputs(e) ==
    [nodes_weight |-> self_nodes_weight[e], edges_weight |-> self_edges_weight[e],
     p |-> self_p[e], pargs |-> self_pargs[e],
     element_to_graph |-> self_element_to_graph[e]]

\* lines 14-28: the engines as constructed
EInit ==
    /\ arg_is_parallel \in EngineArgs
    /\ self_is_parallel = [e \in Engines |-> IsParallelField(arg_is_parallel[e])]
    /\ \E nw \in EngineNodeWeightDicts : self_nodes_weight = [e \in Engines |-> nw]
    /\ self_edges_weight = [e \in Engines |-> EngineEdgeWeights]
    /\ self_p = [e \in Engines |-> None]
    /\ self_pargs = [e \in Engines |-> None]
    /\ self_element_to_graph = [e \in Engines |-> None]
    /\ self_expectation_path = [e \in Engines |-> <<>>]
    /\ environ = [v \in EnvNames |-> None]
    /\ caller \in CallerInputs
    /\ frame = IdleFrame
    /\ pools = <<>>
    /\ outcomes = <<>>

\* the engine part of the state while one term is studied on its own
EOff ==
    /\ arg_is_parallel = <<>>
    /\ self_is_parallel = <<>>
    /\ self_nodes_weight = <<>>
    /\ self_edges_weight = <<>>
    /\ self_p = <<>>
    /\ self_pargs = <<>>
    /\ self_element_to_graph = <<>>
    /\ self_expectation_path = <<>>
    /\ environ = <<>>
    /\ caller = <<>>
    /\ frame = IdleFrame
    /\ pools = <<>>
    /\ outcomes = <<>>

\* the term part of the state while the engines are studied
TOff ==
    /\ t_item = <<>>
    /\ t_nw = <<>>
    /\ t_ew = <<>>
    /\ t_p = 0
    /\ t_pargs = <<>>
    /\ t_pc = "off"
    /\ node_to_qubit = <<>>
    /\ circ = <<>>
    /\ t_k = 0
    /\ t_weight = NoValue
    /\ t_op = <<>>
    /\ t_res = NoValue

\* the caller sets _p, _pargs and _element_to_graph of a constructed engine
Attach(e) ==
    /\ frame.pc = "idle"
    /\ self_element_to_graph[e] = None
    /\ self_p' = [self_p EXCEPT ![e] = Some(caller.p)]
    /\ self_pargs' = [self_pargs EXCEPT ![e] = Some(caller.pargs)]
    /\ self_element_to_graph' =
         [self_element_to_graph EXCEPT ![e] = Some(caller.element_to_graph)]
    /\ UNCHANGED <<arg_is_parallel, self_is_parallel, self_nodes_weight,
                   self_edges_weight, self_expectation_path, environ, caller,
                   frame, pools, outcomes, tvars>>

\* how a call ended: the total returned or nothing, the engine's fields when
\* it began and when it ended, the history before and after, and how often
\* each term was evaluated
Outcome(kind, value, path_after, evals) ==
    [eng |-> frame.eng, strategy |-> frame.strategy, kind |-> kind, value |-> value,
     begin |-> frame.begin, end |-> Inputs(frame.eng),
     path_before |-> frame.begin_path, path_after |-> path_after, evals |-> evals]

\* ------------------------------------------- get_expectation, step by step
TInit ==
    /\ EOff
    /\ t_item \in Items
    /\ t_nw \in NodeWeightDicts
    /\ t_ew \in EdgeWeightDicts
    /\ t_p \in 0 .. MaxP
    /\ t_pargs \in ParamVectors(t_p)
    /\ t_pc = "start"
    /\ node_to_qubit = <<>>
    /\ circ = <<>>
    /\ t_k = 0
    /\ t_weight = NoValue
    /\ t_op = <<>>
    /\ t_res = NoValue

\* lines 57-61
TBuildIndex_Reuse ==
    /\ t_pc = "start"
    /\ node_to_qubit' =
         IF node_to_qubit = <<>> THEN NodeToQubit(t_item[2].nodes) ELSE node_to_qubit
    /\ circ' = <<>>
    /\ t_k' = 0
    /\ t_pc' = "index"
    /\ UNCHANGED <<t_item, t_nw, t_ew, t_p, t_pargs, t_weight, t_op, t_res>>

TBuildIndex ==
    /\ t_pc = "start"
    /\ node_to_qubit' = NodeToQubit(t_item[2].nodes)
    /\ circ' = <<>>
    /\ t_k' = 0
    /\ t_pc' = "index"
    /\ UNCHANGED <<t_item, t_nw, t_ew, t_p, t_pargs, t_weight, t_op, t_res>>

\* lines 63-67
THadamard ==
    /\ t_pc = "index"
    /\ circ' = HadamardGates(Len(t_item[2].nodes))
    /\ t_pc' = "layers"
    /\ UNCHANGED <<t_item, t_nw, t_ew, t_p, t_pargs, node_to_qubit, t_k,
                   t_weight, t_op, t_res>>

\* lines 68-84: one pass of the loop body
TLayer ==
    /\ t_pc = "layers"
    /\ t_k < t_p
    /\ IF LayerMissingKey(t_item[2], node_to_qubit, t_nw, t_ew)
       THEN /\ t_res' = Raise("KeyError")
            /\ t_pc' = "raised"
            /\ UNCHANGED <<circ, t_k, node_to_qubit>>
       ELSE /\ circ' = circ \o LayerGates(t_item[2], node_to_qubit,
                                          GammaList(t_p, t_pargs), BetaList(t_p, t_pargs),
                                          t_nw, t_ew)
            /\ node_to_qubit' = DDTouch(node_to_qubit, LayerKeys(t_item[2]))
            /\ t_k' = t_k + 1
            /\ UNCHANGED <<t_pc, t_res>>
    /\ UNCHANGED <<t_item, t_nw, t_ew, t_p, t_pargs, t_weight, t_op>>

\* lines 86-94
TObservable ==
    /\ t_pc = "layers"
    /\ t_k = t_p
    /\ IF WeightMissing(t_item[1], t_nw, t_ew)
       THEN /\ t_res' = Raise("KeyError")
            /\ t_pc' = "raised"
            /\ UNCHANGED <<t_weight, t_op, node_to_qubit>>
       ELSE /\ t_weight' = Weight(t_item[1], t_nw, t_ew)
            /\ t_op' = ObservableQubits(t_item[1], node_to_qubit)
            /\ node_to_qubit' = DDTouch(node_to_qubit, ObservableKeys(t_item[1]))
            /\ t_pc' = "observable"
            /\ UNCHANGED t_res
    /\ UNCHANGED <<t_item, t_nw, t_ew, t_p, t_pargs, circ, t_k>>

\* lines 96-99
TSimulate ==
    /\ t_pc = "observable"
    /\ t_res' = Ok(t_weight * ExpRes(circ, t_op))
    /\ t_pc' = "done"
    /\ UNCHANGED <<t_item, t_nw, t_ew, t_p, t_pargs, node_to_qubit, circ, t_k,
                   t_weight, t_op>>

\* lines 119-120: the next term of the mapping is evaluated by a new call;
\* here the same element around the same graph enumerated the other way
TNextTerm ==
    /\ t_pc = "done"
    /\ t_item' = <<t_item[1], Mirror(t_item[2])>>
    /\ t_pc' = "start"
    /\ t_weight' = NoValue
    /\ t_op' = <<>>
    /\ t_res' = NoValue
    /\ UNCHANGED <<t_nw, t_ew, t_p, t_pargs, node_to_qubit, circ, t_k>>

TNext ==
    \/ TBuildIndex /\ UNCHANGED evars
    \/ THadamard /\ UNCHANGED evars
    \/ TLayer /\ UNCHANGED evars
    \/ TObservable /\ UNCHANGED evars
    \/ TSimulate /\ UNCHANGED evars
    \/ TNextTerm /\ UNCHANGED evars

TermSpec == TInit /\ [][TNext]_vars


\* an exception leaves expectation_calculation: nothing after the raising
\* statement runs
Propagate(evals) ==
    /\ outcomes' = Append(outcomes,
                          Outcome("raise", None, self_expectation_path[frame.eng], evals))
    /\ frame' = IdleFrame
    /\ UNCHANGED self_expectation_path

\* lines 123-124 and 143-144: self._expectation_path.append(res); return res
AppendAndReturn_Replace(res, evals) ==
    /\ self_expectation_path' = [self_expectation_path EXCEPT ![frame.eng] = <<res>>]
    /\ outcomes' = Append(outcomes,
                          Outcome("return", Some(res), <<res>>, evals))
    /\ frame' = IdleFrame

AppendAndReturn(res, evals) ==
    /\ self_expectation_path' =
         [self_expectation_path EXCEPT ![frame.eng] = Append(@, res)]
    /\ outcomes' = Append(outcomes,
                          Outcome("return", Some(res),
                                  Append(self_expectation_path[frame.eng], res), evals))
    /\ frame' = IdleFrame

\* lines 101-105 (the serial branch) and 108-118
SerialEnv_FourOfFive ==
    [v \in EnvNames |-> IF v = "NUMEXPR_NUM_THREADS" THEN environ[v] ELSE Str(CpuCount)]

SerialEnv == [v \in EnvNames |-> Str(CpuCount)]

SerialBegin(e) ==
    /\ frame.pc = "idle"
    /\ Len(outcomes) < MaxCalls
    /\ ~self_is_parallel[e]
    /\ environ' = SerialEnv
    /\ frame' = [IdleFrame EXCEPT !.pc = "s_loop", !.eng = e, !.strategy = "serial",
                                  !.res = 0, !.begin = Inputs(e),
                                  !.begin_path = self_expectation_path[e]]
    /\ UNCHANGED <<arg_is_parallel, self_is_parallel, inputs, self_expectation_path,
                   caller, pools, outcomes, tvars>>

\* the engine's fields as get_expectation reads them
Fields(e) ==
    [nodes_weight |-> self_nodes_weight[e], edges_weight |-> self_edges_weight[e],
     p |-> The(self_p[e]), pargs |-> The(self_pargs[e])]

Evaluate(item, f) == GetExpectation(item, f.nodes_weight, f.edges_weight, f.p, f.pargs)

\* (a variant in which get_expectation scales its slice of _pargs in place)
SerialIter_InPlace ==
    /\ frame.pc = "s_loop"
    /\ IF self_element_to_graph[frame.eng] = None
       THEN Propagate(frame.evals) /\ UNCHANGED inputs
       ELSE LET items == The(self_element_to_graph[frame.eng])
                r == Evaluate(items[frame.idx + 1], Fields(frame.eng))
            IN  /\ frame.idx < Len(items)
                /\ self_pargs' = [self_pargs EXCEPT ![frame.eng] =
                                    Some(Twice(The(self_pargs[frame.eng])))]
                /\ UNCHANGED <<self_nodes_weight, self_edges_weight, self_p,
                               self_element_to_graph>>
                /\ IF r.ok
                   THEN /\ frame' = [frame EXCEPT !.res = @ + r.val, !.idx = @ + 1,
                                                  !.evals = Append(@, 1)]
                        /\ UNCHANGED <<outcomes, self_expectation_path>>
                   ELSE Propagate(Append(frame.evals, 1))
    /\ UNCHANGED <<arg_is_parallel, self_is_parallel, environ, caller, pools, tvars>>

\* lines 119-120: one iteration, res += self.get_expectation(item)
SerialIter_Swallow ==
    /\ frame.pc = "s_loop"
    /\ IF self_element_to_graph[frame.eng] = None
       THEN Propagate(frame.evals)
       ELSE LET items == The(self_element_to_graph[frame.eng])
                r == Evaluate(items[frame.idx + 1], Fields(frame.eng))
            IN  /\ frame.idx < Len(items)
                /\ frame' = [frame EXCEPT !.res = IF r.ok THEN @ + r.val ELSE @,
                                          !.idx = @ + 1,
                                          !.evals = Append(@, 1)]
                /\ UNCHANGED <<outcomes, self_expectation_path>>
    /\ UNCHANGED <<arg_is_parallel, self_is_parallel, inputs, environ, caller, pools, tvars>>

SerialIter ==
    /\ frame.pc = "s_loop"
    /\ IF self_element_to_graph[frame.eng] = None
       THEN Propagate(frame.evals)
       ELSE LET items == The(self_element_to_graph[frame.eng])
                r == Evaluate(items[frame.idx + 1], Fields(frame.eng))
            IN  /\ frame.idx < Len(items)
                /\ IF r.ok
                   THEN /\ frame' = [frame EXCEPT !.res = @ + r.val, !.idx = @ + 1,
                                                  !.evals = Append(@, 1)]
                        /\ UNCHANGED <<outcomes, self_expectation_path>>
                   ELSE Propagate(Append(frame.evals, 1))
    /\ UNCHANGED <<arg_is_parallel, self_is_parallel, inputs, environ, caller, pools, tvars>>

\* lines 122-124, once the loop is exhausted
SerialEnd ==
    /\ frame.pc = "s_loop"
    /\ self_element_to_graph[frame.eng] # None
    /\ frame.idx = Len(The(self_element_to_graph[frame.eng]))
    /\ AppendAndReturn(frame.res, frame.evals)
    /\ UNCHANGED <<arg_is_parallel, self_is_parallel, inputs, environ, caller, pools, tvars>>

\* lines 101-103 and 127-134
ParallelEnv == [v \in EnvNames |-> Str(1)]

ParallelBegin(e) ==
    /\ frame.pc = "idle"
    /\ Len(outcomes) < MaxCalls
    /\ self_is_parallel[e]
    /\ environ' = ParallelEnv
    /\ frame' = [IdleFrame EXCEPT !.pc = "p_pool", !.eng = e, !.strategy = "parallel",
                                  !.circ_res = <<>>, !.begin = Inputs(e),
                                  !.begin_path = self_expectation_path[e]]
    /\ UNCHANGED <<arg_is_parallel, self_is_parallel, inputs, self_expectation_path,
                   caller, pools, outcomes, tvars>>

\* Pool(processes): the workers start at once, each with a copy of the
\* creating process's environment
NewPool(processes, owner) ==
    [size |-> processes, env |-> environ, state |-> "running", owner |-> owner,
     self |-> None, items |-> <<>>, tasks |-> <<>>, queue |-> <<>>,
     busy |-> [w \in 1 .. processes |-> 0], results |-> <<>>, runs |-> <<>>,
     error |-> None]

\* line 135: pool = Pool(os.cpu_count())
PoolCreate ==
    /\ frame.pc = "p_pool"
    /\ pools' = Append(pools, NewPool(CpuCount, Len(outcomes) + 1))
    /\ frame' = [frame EXCEPT !.pc = "p_map", !.pool = Len(pools) + 1]
    /\ UNCHANGED <<arg_is_parallel, self_is_parallel, inputs, self_expectation_path,
                   environ, caller, outcomes, tvars>>

\* Pool.map cuts n arguments into consecutive batches of chunksize
Chunks(n, chunksize) ==
    [b \in 1 .. ((n + chunksize - 1) \div chunksize) |->
        [k \in 1 .. (IF b * chunksize <= n THEN chunksize ELSE n - (b - 1) * chunksize) |->
            (b - 1) * chunksize + k]]

\* line 136: chunksize=1
TaskBatches_Pairs(n) == Chunks(n, 2)

TaskBatches(n) == Chunks(n, 1)

\* line 136: list(self._element_to_graph.items()) is evaluated, then map
\* queues one task per batch; each task carries a pickled copy of self
MapSubmit ==
    /\ frame.pc = "p_map"
    /\ IF self_element_to_graph[frame.eng] = None
       THEN /\ Propagate(<<>>)
            /\ UNCHANGED pools
       ELSE LET items == The(self_element_to_graph[frame.eng])
                tasks == TaskBatches(Len(items))
            IN  /\ pools' = [pools EXCEPT ![frame.pool] =
                               [@ EXCEPT !.self = Some(Fields(frame.eng)),
                                         !.items = items,
                                         !.tasks = tasks,
                                         !.queue = [t \in 1 .. Len(tasks) |-> t],
                                         !.results = [t \in 1 .. Len(tasks) |-> None],
                                         !.runs = [t \in 1 .. Len(tasks) |-> 0]]]
                /\ frame' = [frame EXCEPT !.pc = "p_wait"]
                /\ UNCHANGED <<outcomes, self_expectation_path>>
    /\ UNCHANGED <<arg_is_parallel, self_is_parallel, inputs, environ, caller, tvars>>

\* an idle worker of the pool takes the next queued task
WorkerTake(w) ==
    /\ frame.pc = "p_wait"
    /\ LET pl == pools[frame.pool]
       IN  /\ w \in 1 .. pl.size
           /\ pl.busy[w] = 0
           /\ pl.queue # <<>>
           /\ pools' = [pools EXCEPT ![frame.pool] =
                          [@ EXCEPT !.busy[w] = Head(pl.queue), !.queue = Tail(pl.queue)]]
    /\ UNCHANGED <<arg_is_parallel, self_is_parallel, inputs, self_expectation_path,
                   environ, caller, frame, outcomes, tvars>>

\* what a worker sends back for a batch: the list of values, or the
\* exception get_expectation raised
BatchResult(batch, items, f) ==
    LET rs == [k \in 1 .. Len(batch) |-> Evaluate(items[batch[k]], f)]
    IN  IF \A k \in 1 .. Len(batch) : rs[k].ok
        THEN Ok([k \in 1 .. Len(batch) |-> rs[k].val])
        ELSE Raise("KeyError")

\* a worker finishes its task; map keeps the first exception it receives
WorkerFinish(w) ==
    /\ frame.pc = "p_wait"
    /\ LET pl == pools[frame.pool]
       IN  /\ w \in 1 .. pl.size
           /\ pl.busy[w] # 0
           /\ LET t == pl.busy[w]
                  r == BatchResult(pl.tasks[t], pl.items, The(pl.self))
              IN  pools' = [pools EXCEPT ![frame.pool] =
                              [@ EXCEPT !.busy[w] = 0,
                                        !.results[t] = Some(r),
                                        !.runs[t] = @ + 1,
                                        !.error = IF ~r.ok /\ pl.error = None
                                                  THEN Some(r.err) ELSE @]]
    /\ UNCHANGED <<arg_is_parallel, self_is_parallel, inputs, self_expectation_path,
                   environ, caller, frame, outcomes, tvars>>

\* how often each item was evaluated by the pool
ItemRuns(pl) ==
    Concat([t \in 1 .. Len(pl.tasks) |-> [k \in 1 .. Len(pl.tasks[t]) |-> pl.runs[t]]])

AllDone(pl) == \A t \in 1 .. Len(pl.tasks) : pl.results[t] # None

\* line 136: map returns the results in the order of the arguments once every
\* task has reported, or raises the exception it kept
MapReturn_Early ==
    /\ frame.pc = "p_wait"
    /\ LET pl == pools[frame.pool]
       IN  /\ pl.queue = <<>>
           /\ IF pl.error # None
              THEN Propagate(ItemRuns(pl))
              ELSE /\ frame' = [frame EXCEPT
                          !.pc = "p_terminate",
                          !.circ_res = <<Concat([t \in 1 .. Len(pl.tasks) |->
                                           IF pl.results[t] = None THEN <<>>
                                           ELSE The(pl.results[t]).val])>>]
                   /\ UNCHANGED <<outcomes, self_expectation_path>>
    /\ UNCHANGED <<arg_is_parallel, self_is_parallel, inputs, environ, caller, pools, tvars>>

MapReturn ==
    /\ frame.pc = "p_wait"
    /\ LET pl == pools[frame.pool]
       IN  /\ AllDone(pl)
           /\ IF pl.error # None
              THEN Propagate(ItemRuns(pl))
              ELSE /\ frame' = [frame EXCEPT
                          !.pc = "p_terminate",
                          !.circ_res = <<Concat([t \in 1 .. Len(pl.tasks) |->
                                                   The(pl.results[t]).val])>>]
                   /\ UNCHANGED <<outcomes, self_expectation_path>>
    /\ UNCHANGED <<arg_is_parallel, self_is_parallel, inputs, environ, caller, pools, tvars>>

\* line 138: pool.terminate()
PoolTerminate ==
    /\ frame.pc = "p_terminate"
    /\ pools' = [pools EXCEPT ![frame.pool].state = "terminated"]
    /\ frame' = [frame EXCEPT !.pc = "p_join"]
    /\ UNCHANGED <<arg_is_parallel, self_is_parallel, inputs, self_expectation_path,
                   environ, caller, outcomes, tvars>>

\* line 139: pool.join()
PoolJoin ==
    /\ frame.pc = "p_join"
    /\ pools' = [pools EXCEPT ![frame.pool].state = "joined"]
    /\ frame' = [frame EXCEPT !.pc = "p_sum"]
    /\ UNCHANGED <<arg_is_parallel, self_is_parallel, inputs, self_expectation_path,
                   environ, caller, outcomes, tvars>>

\* lines 141-144: res = sum(circ_res[0]), append, return
ParallelEnd ==
    /\ frame.pc = "p_sum"
    /\ AppendAndReturn(SumSeq(frame.circ_res[1]), ItemRuns(pools[frame.pool]))
    /\ UNCHANGED <<arg_is_parallel, self_is_parallel, inputs, environ, caller, pools, tvars>>

Init == EInit /\ TOff

Next ==
    \/ \E e \in Engines : Attach(e)
    \/ \E e \in Engines : SerialBegin(e)
    \/ SerialIter
    \/ SerialEnd
    \/ \E e \in Engines : ParallelBegin(e)
    \/ PoolCreate
    \/ MapSubmit
    \/ \E w \in 1 .. CpuCount : WorkerTake(w)
    \/ \E w \in 1 .. CpuCount : WorkerFinish(w)
    \/ MapReturn
    \/ PoolTerminate
    \/ PoolJoin
    \/ ParallelEnd

Spec == Init /\ [][Next]_vars

\* ------------------------------------------------ properties of one term
\* the position (from 0) at which node n is enumerated
Position(node_list, n) == (CHOOSE i \in 1 .. Len(node_list) : node_list[i] = n) - 1

IndexBuilt == t_pc \in {"index", "layers", "observable", "done", "raised"}

ObservableBuilt == t_pc \in {"observable", "done"}

\* the steps above compute what GetExpectation computes
StepwiseAgrees ==
    t_pc \in {"done", "raised"} =>
        t_res = GetExpectation(t_item, t_nw, t_ew, t_p, t_pargs)

\* C8: once built for a term, node_to_qubit is a bijection from exactly the
\* subgraph's nodes onto 0..k-1 in enumeration order, also after the
\* observable's lookups; the observable acts on the local qubit of a node
\* element with weight nodes_weight[element], and on the local qubits of a
\* and b of an edge element (a, b) with weight edges_weight[(a, b)].
C8_LocalIndexBijection ==
    LET node_list == t_item[2].nodes
        e == t_item[1]
    IN  /\ IndexBuilt =>
            /\ DOMAIN node_to_qubit = Range(node_list)
            /\ \A i \in 1 .. Len(node_list) : node_to_qubit[node_list[i]] = i - 1
            /\ {node_to_qubit[n] : n \in DOMAIN node_to_qubit} = 0 .. Len(node_list) - 1
        /\ ObservableBuilt =>
            IF IsInt(e)
            THEN /\ t_op = <<Position(node_list, e[1])>>
                 /\ t_weight = t_nw[e[1]]
            ELSE /\ t_op = <<Position(node_list, e[1]), Position(node_list, e[2])>>
                 /\ t_weight = t_ew[e]

\* a second term was evaluated around a graph of two nodes, for an edge
\* element written against the enumeration order
C8_Witness ==
    /\ t_pc = "done"
    /\ ~IsInt(t_item[1])
    /\ t_op = <<1, 0>>
    /\ Len(t_item[2].nodes) >= 2
    /\ Len(circ) > Len(t_item[2].nodes)

\* the gate sequence the specification describes: the angle of layer l is
\* the scalar built from gamma[l] (resp. beta[l])
SpecLayer(graph, l, gamma, beta, nodes_weight, edges_weight) ==
    [i \in 1 .. Len(graph.nodes) |->
        Gate("rz", <<Position(graph.nodes, graph.nodes[i])>>,
             <<2 * gamma[l] * nodes_weight[graph.nodes[i]]>>)]
    \o Concat([j \in 1 .. Len(graph.edges) |->
          LET u == Position(graph.nodes, graph.edges[j][1])
              v == Position(graph.nodes, graph.edges[j][2])
          IN  IF u = v THEN <<>>
              ELSE << Gate("CX", <<u, v>>, <<>>),
                      Gate("rz", <<v>>, <<2 * gamma[l] * edges_weight[graph.edges[j]]>>),
                      Gate("CX", <<u, v>>, <<>>) >>])
    \o [i \in 1 .. Len(graph.nodes) |->
          Gate("rx", <<Position(graph.nodes, graph.nodes[i])>>, <<2 * beta[l]>>)]

SpecCircuit(graph, p, pargs, nodes_weight, edges_weight) ==
    [i \in 1 .. Len(graph.nodes) |-> Gate("H", <<i - 1>>, <<>>)]
    \o Concat([l \in 1 .. p |->
          SpecLayer(graph, l, SubSeq(pargs, 1, p), SubSeq(pargs, p + 1, 2 * p),
                    nodes_weight, edges_weight)])

\* C6: the circuit built for a term is: a Hadamard per local qubit, then per
\* layer l the node Z-rotations with angle 2*gamma[l]*nodes_weight[n], the
\* CNOT, Z-rotation 2*gamma[l]*edges_weight[(u,v)], CNOT of every edge that
\* is no self-loop, and the X-rotations with angle 2*beta[l].
C6_GateSequence ==
    ObservableBuilt => circ = SpecCircuit(t_item[2], t_p, t_pargs, t_nw, t_ew)

\* the part of C6 that holds of the code: at depth p <= 1
C6_GateSequenceDepthOne ==
    (ObservableBuilt /\ t_p <= 1) => circ = SpecCircuit(t_item[2], t_p, t_pargs, t_nw, t_ew)

\* a weight is stored for the unordered pair of the two nodes
HasPairWeight(ew, pair) == pair \in DOMAIN ew \/ Flip(pair) \in DOMAIN ew

PairWeight(ew, pair) == IF pair \in DOMAIN ew THEN ew[pair] ELSE ew[Flip(pair)]

\* every lookup the term makes has a weight stored for its node or its pair
TermHasWeights ==
    /\ t_p >= 1 => /\ Range(t_item[2].nodes) \subseteq DOMAIN t_nw
                   /\ \A j \in 1 .. Len(t_item[2].edges) :
                        t_item[2].edges[j][1] # t_item[2].edges[j][2]
                        => HasPairWeight(t_ew, t_item[2].edges[j])
    /\ IF IsInt(t_item[1]) THEN t_item[1][1] \in DOMAIN t_nw
                           ELSE HasPairWeight(t_ew, t_item[1])

\* C9: edges_weight is read by unordered pair: a term all of whose edges and
\* whose element have a weight stored under either order raises no key-lookup
\* error, and an edge element's weight is the one stored for its pair.
C9_UnorderedEdgeLookup ==
    TermHasWeights =>
        /\ t_pc # "raised"
        /\ (ObservableBuilt /\ ~IsInt(t_item[1])) => t_weight = PairWeight(t_ew, t_item[1])

\* ------------------------------------------------- properties of the engine
Outcomes == {outcomes[i] : i \in 1 .. Len(outcomes)}

Attached(inp) == inp.element_to_graph # None

\* the result of term i of a computation on the fields inp
TermResult(inp, i) ==
    GetExpectation(The(inp.element_to_graph)[i], inp.nodes_weight, inp.edges_weight,
                   The(inp.p), The(inp.pargs))

NumTerms(inp) == Len(The(inp.element_to_graph))

HasFailingTerm(inp) ==
    Attached(inp) /\ \E i \in 1 .. NumTerms(inp) : ~TermResult(inp, i).ok

\* the sum over all (element, subgraph) pairs of the per-term value
TotalOfTerms(inp) ==
    SumSeq([i \in 1 .. NumTerms(inp) |->
               LET r == TermResult(inp, i) IN IF r.ok THEN r.val ELSE 0])

\* the totals engine e returned in the first n calls, in order
RECURSIVE ReturnedBy(_, _)
ReturnedBy(e, n) ==
    IF n = 0 THEN <<>>
    ELSE IF outcomes[n].eng = e /\ outcomes[n].kind = "return"
         THEN Append(ReturnedBy(e, n - 1), The(outcomes[n].value))
         ELSE ReturnedBy(e, n - 1)

\* C1: on the same weights, p, parameters and mapping the serial and the
\* parallel strategy end the same way: both return the sum of the per-term
\* values and append it, in whatever order the workers finished; an engine
\* constructed without is_parallel (or with False) runs the serial strategy.
C1_StrategiesAgree ==
    /\ \A o \in Outcomes :
         /\ o.strategy = (IF arg_is_parallel[o.eng] = "True" THEN "parallel" ELSE "serial")
         /\ o.kind = "return" =>
              /\ Attached(o.begin)
              /\ o.value = Some(TotalOfTerms(o.begin))
              /\ o.path_after = o.path_before \o o.value
    /\ \A o1, o2 \in Outcomes :
         o1.begin = o2.begin =>
              /\ o1.kind = o2.kind
              /\ o1.value = o2.value
              /\ Len(o1.path_after) - Len(o1.path_before)
                   = Len(o2.path_after) - Len(o2.path_before)

\* a serial and a parallel call on the same two-term mapping both returned
\* a total that is not zero
C1_Witness ==
    \E o1, o2 \in Outcomes :
        /\ o1.strategy = "serial" /\ o2.strategy = "parallel"
        /\ o1.kind = "return" /\ o2.kind = "return"
        /\ o1.begin = o2.begin
        /\ NumTerms(o1.begin) >= 2
        /\ o1.value # Some(0)

\* C2: the history of every engine is the sequence of the totals its
\* completed calls returned, in order: empty at first, one entry appended per
\* completed call, earlier entries untouched, nothing appended in between.
C2_HistoryAppendOnly ==
    /\ \A e \in Engines : self_expectation_path[e] = ReturnedBy(e, Len(outcomes))
    /\ \A i \in 1 .. Len(outcomes) :
         /\ outcomes[i].path_before = ReturnedBy(outcomes[i].eng, i - 1)
         /\ outcomes[i].path_after = ReturnedBy(outcomes[i].eng, i)
    /\ frame.pc # "idle" => self_expectation_path[frame.eng] = frame.begin_path

\* an engine completed two calls
C2_Witness ==
    \E e \in Engines :
        /\ Len(self_expectation_path[e]) = 2
        /\ self_expectation_path[e][1] # 0
        /\ Len(outcomes) = 2

\* outcomes i < j are consecutive calls of one engine
Consecutive(i, j) ==
    /\ i < j
    /\ outcomes[i].eng = outcomes[j].eng
    /\ \A k \in i + 1 .. j - 1 : outcomes[k].eng # outcomes[i].eng

\* C3: a call leaves nodes_weight, edges_weight, p, the parameter vector and
\* the mapping as it found them, and two calls in a row on unchanged fields
\* return the same total and append two equal entries.
C3_Idempotent ==
    /\ frame.pc # "idle" => Inputs(frame.eng) = frame.begin
    /\ \A o \in Outcomes : o.end = o.begin
    /\ \A i, j \in 1 .. Len(outcomes) :
         (/\ Consecutive(i, j)
          /\ outcomes[j].begin = outcomes[i].begin
          /\ outcomes[i].kind = "return") =>
              /\ outcomes[j].kind = "return"
              /\ outcomes[j].value = outcomes[i].value
              /\ outcomes[j].path_after
                   = outcomes[i].path_before
                     \o <<The(outcomes[i].value), The(outcomes[i].value)>>

\* one engine returned twice in a row on a mapping of two terms
C3_Witness ==
    \E i, j \in 1 .. Len(outcomes) :
        /\ Consecutive(i, j)
        /\ outcomes[j].begin = outcomes[i].begin
        /\ outcomes[i].kind = "return" /\ outcomes[j].kind = "return"
        /\ NumTerms(outcomes[i].begin) >= 2
        /\ The(outcomes[i].begin.p) >= 1

\* C4: a call one of whose terms fails (or whose mapping was never attached)
\* ends with the exception: no total is returned, the history is as before
\* the call, and no term was evaluated twice; in both strategies.
C4_ErrorPropagates ==
    /\ \A o \in Outcomes :
         /\ (HasFailingTerm(o.begin) \/ ~Attached(o.begin)) => o.kind = "raise"
         /\ o.kind = "raise" =>
              /\ o.value = None
              /\ o.path_after = o.path_before
              /\ \A k \in 1 .. Len(o.evals) : o.evals[k] <= 1
    /\ \A e \in Engines :
         Len(self_expectation_path[e])
           = Cardinality({i \in 1 .. Len(outcomes) :
                             outcomes[i].eng = e /\ outcomes[i].kind = "return"})

\* a serial call failed on its second term after the first succeeded, and a
\* parallel call failed after its workers evaluated every term
C4_Witness ==
    \E o1, o2 \in Outcomes :
        /\ o1.strategy = "serial" /\ o1.kind = "raise" /\ Len(o1.evals) = 2
        /\ TermResult(o1.begin, 1).ok
        /\ o2.strategy = "parallel" /\ o2.kind = "raise" /\ Len(o2.evals) = 2

AllSet(env, n) == \A v \in EnvNames : env[v] = Str(n)

\* C5: while the serial loop evaluates terms the five variables hold the
\* core count; every pool was created, and so every worker evaluates, with
\* the five variables at 1, which the parallel call also keeps in its own
\* environment until it ends; whatever calls came before.
C5_ThreadEnvironment ==
    /\ frame.strategy = "serial" => AllSet(environ, CpuCount)
    /\ frame.strategy = "parallel" => AllSet(environ, 1)
    /\ \A k \in 1 .. Len(pools) : AllSet(pools[k].env, 1)

\* after a parallel call returned, a serial call is evaluating its second term
C5_Witness ==
    /\ Len(outcomes) >= 1
    /\ outcomes[1].strategy = "parallel" /\ outcomes[1].kind = "return"
    /\ frame.strategy = "serial"
    /\ frame.idx >= 1

Current(k) == frame.pc # "idle" /\ frame.pool = k

\* C7: each parallel call has a pool of its own with one worker per core;
\* map queues one single-item task per pair; no task is at two workers, run
\* twice, or both queued and done; the call goes on to terminate, join and
\* sum only when every task has run once and its result is in; join follows
\* terminate; a pool of an earlier call has nothing queued or running.
C7_PoolDiscipline ==
    /\ \A k \in 1 .. Len(pools) :
         LET pl == pools[k]
         IN  /\ pl.size = CpuCount
             /\ DOMAIN pl.busy = 1 .. CpuCount
             /\ \A k2 \in 1 .. Len(pools) : k2 # k => pools[k2].owner # pl.owner
             /\ Current(k) => pl.owner = Len(outcomes) + 1
             /\ pl.self # None =>
                  /\ Len(pl.tasks) = Len(pl.items)
                  /\ \A t \in 1 .. Len(pl.tasks) : pl.tasks[t] = <<t>>
             /\ \A t \in 1 .. Len(pl.tasks) :
                  /\ pl.runs[t] <= 1
                  /\ Cardinality({w \in 1 .. pl.size : pl.busy[w] = t})
                       + Cardinality({q \in 1 .. Len(pl.queue) : pl.queue[q] = t})
                       + pl.runs[t] = 1
                  /\ pl.runs[t] = 1 <=> pl.results[t] # None
             /\ pl.state # "running" =>
                  /\ AllDone(pl)
                  /\ \A w \in 1 .. pl.size : pl.busy[w] = 0
             /\ ~Current(k) =>
                  /\ pl.queue = <<>>
                  /\ \A w \in 1 .. pl.size : pl.busy[w] = 0
    /\ frame.pc \in {"p_map", "p_wait", "p_terminate", "p_join", "p_sum"} =>
         /\ frame.pool = Len(pools)
         /\ pools[frame.pool].state =
              (CASE frame.pc = "p_join" -> "terminated"
                 [] frame.pc = "p_sum" -> "joined"
                 [] OTHER -> "running")
    /\ frame.pc \in {"p_terminate", "p_join", "p_sum"} =>
         /\ AllDone(pools[frame.pool])
         /\ Len(frame.circ_res[1]) = Len(pools[frame.pool].items)

\* the second parallel call is about to sum the results of its own pool,
\* whose two tasks were run by two workers
C7_Witness ==
    /\ frame.pc = "p_sum"
    /\ Len(pools) = 2
    /\ Len(pools[2].tasks) = 2
    /\ pools[1].state = "joined"

\* C10: when no call is running, every pool whose call ended by returning a
\* total or by the error of one of its tasks has been terminated and joined.
C10_NoPoolOutlivesItsCall ==
    frame.pc = "idle" =>
        \A k \in 1 .. Len(pools) : pools[k].self # None => pools[k].state = "joined"
====
